---------------------------- MODULE Spec2Model ----------------------------
(***************************************************************************)
(* Model of django_grpc_framework_plus/backends: the dynamic filter        *)
(* backend (filters.py), the dynamic sort backend (sorts.py) and the       *)
(* page-number pagination backend (paginations.py).                        *)
(*                                                                         *)
(* Python strings are modelled as sequences of one-character strings, so   *)
(* that split, join, startswith, lower, int() and float() are computed     *)
(* character by character as the interpreter computes them.                *)
(*                                                                         *)
(* Three specifications share the variables:                               *)
(*   Spec      DynamicFilterBackend.filter_queryset                        *)
(*   SpecSort  DynamicSort.filter_queryset                                 *)
(*   SpecPage  PageNumberPagination.paginate_queryset and                  *)
(*             get_paginated_response                                      *)
(***************************************************************************)
EXTENDS Integers, Sequences, FiniteSets, TLC

(***************************************************************************)
(* Bounds of the model.                                                    *)
(***************************************************************************)
\* largest number of entries of a request's parameter map
MaxParams == 2
\* largest number of comma-separated entries of a sort token
MaxSortEntries == 2
\* largest number of records in the data store handed to the paginator
MaxCount == 5

(***************************************************************************)
(* Python str operations.                                                  *)
(***************************************************************************)
SetMin(S) == CHOOSE x \in S : \A y \in S : x <= y

\* s.startswith(p)
StartsWith(s, p) == Len(p) <= Len(s) /\ SubSeq(s, 1, Len(p)) = p

\* s.split(sep): leftmost, non-overlapping occurrences of sep
RECURSIVE Split(_, _)
Split(s, sep) ==
    LET n == Len(sep)
        at == {i \in 1..(Len(s) - n + 1) : SubSeq(s, i, i + n - 1) = sep}
    IN  IF at = {} THEN <<s>>
        ELSE LET i == SetMin(at)
             IN  <<SubSeq(s, 1, i - 1)>> \o Split(SubSeq(s, i + n, Len(s)), sep)

\* sep.join(parts)
RECURSIVE Join(_, _)
Join(parts, sep) ==
    IF Len(parts) = 0 THEN <<>>
    ELSE IF Len(parts) = 1 THEN parts[1]
    ELSE parts[1] \o sep \o Join(Tail(parts), sep)

UpperChars == <<"A","B","C","D","E","F","G","H","I","J","K","L","M",
                "N","O","P","Q","R","S","T","U","V","W","X","Y","Z">>
LowerChars == <<"a","b","c","d","e","f","g","h","i","j","k","l","m",
                "n","o","p","q","r","s","t","u","v","w","x","y","z">>

\* s.lower()
Lower(s) ==
    [i \in 1..Len(s) |->
        IF \E j \in 1..26 : UpperChars[j] = s[i]
        THEN LowerChars[CHOOSE j \in 1..26 : UpperChars[j] = s[i]]
        ELSE s[i]]

DigitChars == <<"0","1","2","3","4","5","6","7","8","9">>
IsDigit(c) == \E j \in 1..10 : DigitChars[j] = c
DigitVal(c) == (CHOOSE j \in 1..10 : DigitChars[j] = c) - 1
AllDigits(s) == Len(s) > 0 /\ \A i \in 1..Len(s) : IsDigit(s[i])

\* value of a non-empty string of decimal digits
RECURSIVE DigitsVal(_)
DigitsVal(s) ==
    IF Len(s) = 0 THEN 0
    ELSE 10 * DigitsVal(SubSeq(s, 1, Len(s) - 1)) + DigitVal(s[Len(s)])

HasSign(s) == Len(s) > 0 /\ s[1] \in {"+", "-"}
Unsigned(s) == IF HasSign(s) THEN Tail(s) ELSE s
SignOf(s) == IF Len(s) > 0 /\ s[1] = "-" THEN -1 ELSE 1

\* int(s) for a str s: an optional sign and decimal digits, anything else is
\* a ValueError.  (The model's values hold no whitespace and no "_".)
IntOf(sign, digits) ==
    IF AllDigits(digits)
    THEN [ok |-> TRUE, val |-> sign * DigitsVal(digits)]
    ELSE [ok |-> FALSE, val |-> 0]

ParseInt(s) == IntOf(SignOf(s), Unsigned(s))

\* a float as num * 10^exp with num not divisible by 10 (0 is 0 * 10^0)
RECURSIVE NormFloat(_, _)
NormFloat(num, exp) ==
    IF num = 0 THEN [ok |-> TRUE, special |-> <<>>, num |-> 0, exp |-> 0]
    ELSE IF num % 10 = 0 THEN NormFloat(num \div 10, exp + 1)
    ELSE [ok |-> TRUE, special |-> <<>>, num |-> num, exp |-> exp]

NotAFloat == [ok |-> FALSE, special |-> <<>>, num |-> 0, exp |-> 0]
SpecialFloat(w) == [ok |-> TRUE, special |-> w, num |-> 0, exp |-> 0]

W_inf == <<"i","n","f">>
W_nan == <<"n","a","n">>
W_infinity == <<"i","n","f","i","n","i","t","y">>

\* float(s) for a str s: [sign] digits [. digits] [e [sign] digits], or
\* inf / infinity / nan in any case; anything else is a ValueError.
FloatDigits(sign, ipart, fpart, e) ==
    IF /\ Len(ipart) + Len(fpart) > 0
       /\ \A i \in 1..Len(ipart) : IsDigit(ipart[i])
       /\ \A i \in 1..Len(fpart) : IsDigit(fpart[i])
    THEN NormFloat(sign * DigitsVal(ipart \o fpart), e - Len(fpart))
    ELSE NotAFloat

FloatMantissa(sign, mparts, e) ==
    IF Len(mparts) > 2 \/ ~e.ok THEN NotAFloat
    ELSE FloatDigits(sign, mparts[1],
                     IF Len(mparts) = 2 THEN mparts[2] ELSE <<>>, e.val)

FloatExponent(sign, eparts) ==
    IF Len(eparts) > 2 THEN NotAFloat
    ELSE FloatMantissa(sign, Split(eparts[1], <<".">>),
                       IF Len(eparts) = 2 THEN ParseInt(eparts[2])
                       ELSE [ok |-> TRUE, val |-> 0])

FloatOf(sign, low) ==
    IF low = W_nan THEN SpecialFloat(IF sign = -1 THEN <<"-">> \o W_nan ELSE W_nan)
    ELSE IF low \in {W_inf, W_infinity}
    THEN SpecialFloat(IF sign = -1 THEN <<"-">> \o W_inf ELSE W_inf)
    ELSE FloatExponent(sign, Split(low, <<"e">>))

ParseFloat(s) == FloatOf(SignOf(s), Lower(Unsigned(s)))

\* str(n) for an int n
RECURSIVE NatStr(_)
NatStr(n) ==
    IF n < 10 THEN <<DigitChars[n + 1]>>
    ELSE NatStr(n \div 10) \o <<DigitChars[(n % 10) + 1]>>

IntStr(n) == IF n < 0 THEN <<"-">> \o NatStr(-n) ELSE NatStr(n)

(***************************************************************************)
(* Python values held in the filter kwargs: one record shape for all.      *)
(***************************************************************************)
PyStr(s)        == [kind |-> "str",   s |-> s,    items |-> <<>>, num |-> 0, exp |-> 0, flag |-> FALSE]
PyList(xs)      == [kind |-> "list",  s |-> <<>>, items |-> xs,   num |-> 0, exp |-> 0, flag |-> FALSE]
PyBool(b)       == [kind |-> "bool",  s |-> <<>>, items |-> <<>>, num |-> 0, exp |-> 0, flag |-> b]
PyFloat(f)      == [kind |-> "float", s |-> f.special, items |-> <<>>, num |-> f.num, exp |-> f.exp, flag |-> FALSE]

\* a dict as a function on its keys; d[k] = v
EmptyDict == [k \in {} |-> PyStr(<<>>)]
DictSet(d, k, v) == [x \in (DOMAIN d) \cup {k} |-> IF x = k THEN v ELSE d[x]]

(***************************************************************************)
(* filters.py: DynamicFilterBackend                                        *)
(***************************************************************************)
\* the field/lookup separator "__"
SEP == <<"_","_">>
T_exact == <<"e","x","a","c","t">>
T_iexact == <<"i","e","x","a","c","t">>
T_contains == <<"c","o","n","t","a","i","n","s">>
T_icontains == <<"i","c","o","n","t","a","i","n","s">>
T_in == <<"i","n">>
T_gt == <<"g","t">>
T_gte == <<"g","t","e">>
T_lt == <<"l","t">>
T_lte == <<"l","t","e">>
T_startswith == <<"s","t","a","r","t","s","w","i","t","h">>
T_istartswith == <<"i","s","t","a","r","t","s","w","i","t","h">>
T_endswith == <<"e","n","d","s","w","i","t","h">>
T_iendswith == <<"i","e","n","d","s","w","i","t","h">>
T_range == <<"r","a","n","g","e">>
T_date == <<"d","a","t","e">>
T_year == <<"y","e","a","r">>
T_month == <<"m","o","n","t","h">>
T_day == <<"d","a","y">>
T_isnull == <<"i","s","n","u","l","l">>

\* LOOKUP_EXPRESSIONS: lookup token -> suffix of the data store's keyword;
\* "exact" maps to "" and every other token t to "__" + t
LOOKUP_EXPRESSIONS ==
    [t \in {T_exact, T_iexact, T_contains, T_icontains, T_in,
              T_gt, T_gte, T_lt, T_lte, T_startswith,
              T_istartswith, T_endswith, T_iendswith, T_range, T_date,
              T_year, T_month, T_day, T_isnull} |->
        IF t = T_exact THEN <<>> ELSE SEP \o t]

K_page == <<"p","a","g","e">>
K_page_size == <<"p","a","g","e","_","s","i","z","e">>
K_search == <<"s","e","a","r","c","h">>
K_sort == <<"s","o","r","t">>
RESERVED_KEYS == {K_page, K_page_size, K_search, K_sort}

\* a parameter map (an insertion-ordered dict of str to str) is a sequence of
\* [key, value] entries with distinct keys
Param(k, v) == [key |-> k, value |-> v]
KeysOf(m) == {m[i].key : i \in 1..Len(m)}
HasKey(m, k) == k \in KeysOf(m)
\* m.get(k) for a key k of m
GetValue(m, k) == m[CHOOSE i \in 1..Len(m) : m[i].key = k].value

\* key.startswith("!") and key[1:]
IsExcludeKey(key) == StartsWith(key, <<"!">>)
StripExclude_Keep(key) == key
StripExclude(key) == IF IsExcludeKey(key) THEN Tail(key) ELSE key

\* parts[-1] in self.LOOKUP_EXPRESSIONS or parts[-1] in ["in", "range"]
IsLookupToken(t) == t \in DOMAIN LOOKUP_EXPRESSIONS \/ t \in {T_in, T_range}

\* lines 80-86: field and lookup from the parts of key.split("__")
FieldAndLookup(key, parts) ==
    IF IsLookupToken(parts[Len(parts)])
    THEN [field  |-> Join(SubSeq(parts, 1, Len(parts) - 1), SEP),
          lookup |-> parts[Len(parts)]]
    ELSE [field |-> key, lookup |-> T_exact]

\* the split of a key (its leading "!" removed) into field and lookup
ResolveLookup(key) == FieldAndLookup(key, Split(key, SEP))

\* value = float(value), or `continue` on TypeError / ValueError
FloatValue(f) == [ok |-> f.ok, value |-> PyFloat(f)]

\* value = value.split(","), and for range `continue` unless len(value) == 2
ListValue(items, need) ==
    [ok |-> need = 0 \/ Len(items) = need, value |-> PyList(items)]

\* lines 92-105: the value conversion of a lookup; ok = FALSE is `continue`
CoerceValue_KeepBadRange(lookup, value) ==
    IF lookup \in {T_in, T_range} THEN ListValue(Split(value, <<",">>), 0)
    ELSE IF lookup = T_isnull
    THEN [ok |-> TRUE, value |-> PyBool(Lower(value) = <<"t","r","u","e">>)]
    ELSE IF lookup \in {T_gt, T_gte, T_lt, T_lte}
    THEN FloatValue(ParseFloat(value))
    ELSE [ok |-> TRUE, value |-> PyStr(value)]

CoerceValue(lookup, value) ==
    IF lookup = T_in THEN ListValue(Split(value, <<",">>), 0)
    ELSE IF lookup = T_range THEN ListValue(Split(value, <<",">>), 2)
    ELSE IF lookup = T_isnull
    THEN [ok |-> TRUE, value |-> PyBool(Lower(value) = <<"t","r","u","e">>)]
    ELSE IF lookup \in {T_gt, T_gte, T_lt, T_lte}
    THEN FloatValue(ParseFloat(value))
    ELSE [ok |-> TRUE, value |-> PyStr(value)]

\* self.LOOKUP_EXPRESSIONS.get(lookup, '')
LookupExpr(lookup) ==
    IF lookup \in DOMAIN LOOKUP_EXPRESSIONS THEN LOOKUP_EXPRESSIONS[lookup] ELSE <<>>

\* one iteration of the loop of get_basic_filter_kwargs over the entry
\* (key, value): emit = FALSE where the iteration ends in `continue`
Clause(key, r, c) ==
    [key        |-> key,
     emit       |-> /\ key \notin RESERVED_KEYS
                    /\ IsLookupToken(r.lookup)
                    /\ c.ok,
     is_exclude |-> IsExcludeKey(key),
     field      |-> r.field,
     lookup     |-> r.lookup,
     filter_key |-> r.field \o LookupExpr(r.lookup),
     value      |-> c.value]

ResolvedClause(key, r, value) == Clause(key, r, CoerceValue(r.lookup, value))

BasicClause(key, value) ==
    ResolvedClause(key, ResolveLookup(StripExclude(key)), value)

\* lines 111-114: exclude_kwargs[filter_key] = value or
\* filter_kwargs[filter_key] = value; filter_src and exclude_src record the
\* parameter keys that wrote into each dict
NoKwargs ==
    [filter_kwargs |-> EmptyDict, exclude_kwargs |-> EmptyDict,
     filter_src |-> {}, exclude_src |-> {}]

AddClause(kw, c) ==
    IF ~c.emit THEN kw
    ELSE IF c.is_exclude
    THEN [kw EXCEPT !.exclude_kwargs = DictSet(@, c.filter_key, c.value),
                    !.exclude_src = @ \cup {c.key}]
    ELSE [kw EXCEPT !.filter_kwargs = DictSet(@, c.filter_key, c.value),
                    !.filter_src = @ \cup {c.key}]

\* get_basic_filter_kwargs(filters): the pair (filter_kwargs, exclude_kwargs)
RECURSIVE BasicLoop(_, _)
BasicLoop(filters, kw) ==
    IF Len(filters) = 0 THEN kw
    ELSE BasicLoop(Tail(filters),
                   AddClause(kw, BasicClause(filters[1].key, filters[1].value)))

get_basic_filter_kwargs(filters) == BasicLoop(filters, NoKwargs)

\* filters.pop(incoming_key, None)
PopKey_Keep(filters, key) == filters
PopKey(filters, key) == SelectSeq(filters, LAMBDA p : p.key # key)

\* the lookup a grouped key carries, default icontains
GroupLookup(incoming_key) ==
    LET parts == Split(incoming_key, SEP)
    IN  IF Len(parts) > 1 /\ parts[Len(parts)] \in DOMAIN LOOKUP_EXPRESSIONS
        THEN parts[Len(parts)]
        ELSE T_icontains

\* q = Q(); for field in fields: q |= Q(**{f"{field}{lookup_expr}": value})
\* the disjuncts of q, in the order of fields
GroupQ(fields, incoming_key, value) ==
    [i \in 1..Len(fields) |->
        [key   |-> fields[i] \o LookupExpr(GroupLookup(incoming_key)),
         value |-> value]]

\* a call on the data store: op is the queryset method, stage the part of
\* filter_queryset that makes it, q the disjuncts of a Q argument, kwargs the
\* keyword arguments, args the positional arguments, src the parameter keys
\* the arguments were built from
Call(op, stage, q, kwargs, src) ==
    [op |-> op, stage |-> stage, q |-> q, kwargs |-> kwargs, src |-> src, args |-> <<>>]

\* the entries of list(filters.items()) one group consumes, in map order
GroupMatches(filters, group_key) ==
    SelectSeq(filters, LAMBDA p : StartsWith(p.key, group_key))

RECURSIVE PopAll(_, _)
PopAll(filters, entries) ==
    IF Len(entries) = 0 THEN filters
    ELSE PopAll(PopKey(filters, entries[1].key), Tail(entries))

\* apply_grouped_filters run to its end: the queryset.filter(q) calls it makes,
\* in order, one per consumed entry; groups in declaration order, each over a
\* snapshot of the entries left by the groups before it
RECURSIVE GroupedCalls(_, _)
GroupedCalls(filter_groups, filters) ==
    IF Len(filter_groups) = 0 THEN <<>>
    ELSE LET g == filter_groups[1]
             m == GroupMatches(filters, g.group_key)
         IN  [i \in 1..Len(m) |->
                 Call("filter", "grouped", GroupQ(g.fields, m[i].key, m[i].value),
                      EmptyDict, {m[i].key})]
             \o GroupedCalls(Tail(filter_groups), PopAll(filters, m))

\* the working map after the first n calls of apply_grouped_filters returned
RECURSIVE PopCalls(_, _, _)
PopCalls(filters, gcalls, n) ==
    IF n = 0 THEN filters
    ELSE PopCalls(PopKey(filters, CHOOSE k \in gcalls[1].src : TRUE),
                  Tail(gcalls), n - 1)

\* apply_search(queryset, search_term, search_fields): the disjuncts of q
SearchQ(search_term, search_fields) ==
    [i \in 1..Len(search_fields) |->
        [key |-> search_fields[i] \o SEP \o T_icontains, value |-> search_term]]

\* lines 192-195: the calls the basic stage makes, in order
FilterCall(kw) ==
    IF DOMAIN kw.filter_kwargs # {}
    THEN <<Call("filter", "basic", <<>>, kw.filter_kwargs, kw.filter_src)>>
    ELSE <<>>

ExcludeCall(kw) ==
    IF DOMAIN kw.exclude_kwargs # {}
    THEN <<Call("exclude", "basic", <<>>, kw.exclude_kwargs, kw.exclude_src)>>
    ELSE <<>>

BasicCalls_ExcludeFirst(kw) == ExcludeCall(kw) \o FilterCall(kw)

BasicCalls(kw) == FilterCall(kw) \o ExcludeCall(kw)

\* lines 198-202: the call the search stage makes, if any
SearchCall(search_term, search_fields) ==
    IF Len(search_term) > 0 /\ Len(search_fields) > 0
    THEN <<Call("filter", "search", SearchQ(search_term, search_fields),
                EmptyDict, {K_search})>>
    ELSE <<>>

\* filters.get("search"): None is as falsy as ""
SearchTerm(filters) ==
    IF HasKey(filters, K_search) THEN GetValue(filters, K_search) ELSE <<>>

SearchCalls(filters, search_fields) == SearchCall(SearchTerm(filters), search_fields)

\* the exceptions a data store call can raise
ExcKinds == {"ValueError", "ValidationError", "FieldError"}

\* except (ValueError, ValidationError) as e: raise ValidationError(...);
\* what the caller of filter_queryset receives for an exception raised inside
HandleFilterException_CatchAll(e) ==
    [kind |-> "ValidationError", message |-> "Invalid filter parameters", cause |-> e]

HandleFilterException(e) ==
    IF e \in {"ValueError", "ValidationError"}
    THEN [kind |-> "ValidationError", message |-> "Invalid filter parameters", cause |-> e]
    ELSE [kind |-> e, message |-> "", cause |-> e]

NoOutcome == [kind |-> "none", message |-> "", cause |-> "none"]
Returned == [kind |-> "queryset", message |-> "", cause |-> "none"]

(***************************************************************************)
(* The inputs of filter_queryset: the request's parameter map and the      *)
(* view's declarations.                                                    *)
(***************************************************************************)
\* the entries a request's parameter map is drawn from
ParamPool ==
    { Param(<<"f">>, <<"1">>),
      Param(<<"f","_","_","e","x","a","c","t">>, <<"2">>),
      Param(<<"!","f">>, <<"3">>),
      Param(<<"f","_","_","g","t">>, <<"a","b","c">>),
      Param(<<"a","_","_","b","_","_","l","t","e">>, <<"1",".","5">>),
      Param(<<"f","_","_","r","a","n","g","e">>, <<"1",",","2",",","3">>),
      Param(<<"f","_","_","r","a","n","g","e">>, <<"1",",","2">>),
      Param(<<"!","f","_","_","i","n">>, <<"a",",","b">>),
      Param(<<"f","_","_","i","s","n","u","l","l">>, <<"T","r","u","e">>),
      Param(<<"d","a","t","e">>, <<"x">>),
      Param(<<"n","a","m","e","_","_","i","s","t","a","r","t","s","w","i","t","h">>, <<"a","l">>),
      Param(<<"n","a","m","e">>, <<"a","l">>),
      Param(<<"p","a","g","e">>, <<"2">>),
      Param(<<"s","e","a","r","c","h">>, <<"a","l">>),
      Param(<<"s","o","r","t">>, <<"-","f">>) }

\* every insertion-ordered map of n entries of the pool with distinct keys
RECURSIVE MapsOfLen(_)
MapsOfLen(n) ==
    IF n = 0 THEN {<<>>}
    ELSE UNION {{Append(m, p) : p \in {q \in ParamPool : ~HasKey(m, q.key)}} :
                m \in MapsOfLen(n - 1)}

ParamMaps == UNION {MapsOfLen(n) : n \in 0..MaxParams}

\* a request that reaches every stage of filter_queryset: a grouped key, an
\* include clause, an exclude clause, a search term and the page number
FullMap ==
    << Param(<<"p","a","g","e">>, <<"2">>), Param(<<"!","f">>, <<"3">>), Param(<<"s","e","a","r","c","h">>, <<"a","l">>), Param(<<"f">>, <<"1">>), Param(<<"n","a","m","e","_","_","i","s","t","a","r","t","s","w","i","t","h">>, <<"a","l">>) >>

\* a request: hasattr(request, "filters") and request.filters
Requests ==
    {[has_filters |-> TRUE, filters |-> m] : m \in ParamMaps \cup {FullMap}}
    \cup {[has_filters |-> FALSE, filters |-> <<>>]}

Group(k, fields) == [group_key |-> k, fields |-> fields]
G_name == Group(<<"n","a","m","e">>, <<<<"f","i","r","s","t">>, <<"l","a","s","t">>>>)
G_page == Group(<<"p","a","g","e">>, <<<<"s","l","u","g">>>>)

\* view.filter_groups (an insertion-ordered dict; absent is {})
FilterGroupChoices == { <<>>, <<G_name>>, <<G_name, G_page>> }
\* view.search_fields (absent is [])
SearchFieldChoices == { <<>>, <<<<"t","i","t","l","e">>, <<"b","o","d","y">>>> }

(***************************************************************************)
(* State.                                                                  *)
(***************************************************************************)
VARIABLES
    request,         \* the request: has_filters, filters (never written by the backends)
    view,            \* the view's declarations
    pc,              \* the position of the running method
    filters,         \* filter_queryset's working copy of request.filters
    calls,           \* the calls made on the data store so far, in order
    filter_kwargs,   \* get_basic_filter_kwargs' first result
    exclude_kwargs,  \* get_basic_filter_kwargs' second result
    outcome,         \* what the caller receives: a result or an exception
    sort_specs,      \* get_sort_fields' result
    queryset_count,  \* the number of records of the queryset given to the paginator
    paginator,       \* paginate_queryset's Paginator(queryset, page_size)
    page,            \* PageNumberPagination's self.page
    response         \* get_paginated_response's result

vars == <<request, view, pc, filters, calls, filter_kwargs, exclude_kwargs, outcome,
          sort_specs, queryset_count, paginator, page, response>>

\* self.page before paginate_queryset, and the response before
\* get_paginated_response
NoPaginator == [per_page |-> 0, count |-> 0, num_pages |-> 0]
NoPage == [number |-> 0, items |-> <<>>]
NoResponse ==
    [data |-> <<>>, page |-> <<>>, next_page |-> <<>>, previous_page |-> <<>>,
     total_data_count |-> <<>>, total_page_count |-> <<>>]

\* getattr(view, "sort_fields", []) is not declared
NoSortFields == [kind |-> "absent", items |-> <<>>]

(***************************************************************************)
(* DynamicFilterBackend.filter_queryset, one action per stage.  A call on  *)
(* the data store either returns or raises one of ExcKinds; the except     *)
(* clause of filter_queryset is part of the action in which the exception  *)
(* is raised.                                                              *)
(***************************************************************************)
InitFilter ==
    /\ request \in Requests
    /\ view \in {[filter_groups |-> g, search_fields |-> s, sort_fields |-> NoSortFields] :
                    g \in FilterGroupChoices, s \in SearchFieldChoices}
    /\ pc = "start"
    /\ filters = <<>>
    /\ calls = <<>>
    /\ filter_kwargs = EmptyDict
    /\ exclude_kwargs = EmptyDict
    /\ outcome = NoOutcome
    /\ sort_specs = <<>>
    /\ queryset_count = 0
    /\ paginator = NoPaginator
    /\ page = NoPage
    /\ response = NoResponse

\* line 185: filters = dict(request.filters) if hasattr(request, "filters") else {}
CopyFilters ==
    /\ pc = "start"
    /\ filters' = (IF request.has_filters THEN request.filters ELSE <<>>)
    /\ pc' = "grouped"
    /\ UNCHANGED <<sort_specs, queryset_count, paginator, page, response>>
    /\ UNCHANGED <<request, view, calls, filter_kwargs, exclude_kwargs, outcome>>

\* line 185 and line 174: filters is dict(request.filters), a dict of its
\* own, so filters.pop(...) writes the working map and not the request; the
\* request after the working map became new_filters
RequestAfterPop_Aliased(req, new_filters) ==
    IF req.has_filters THEN [req EXCEPT !.filters = new_filters] ELSE req

RequestAfterPop(req, new_filters) == req

\* line 187: apply_grouped_filters returns
GroupedReturns(gc) ==
    /\ pc = "grouped"
    /\ calls' = calls \o gc
    /\ filters' = PopCalls(filters, gc, Len(gc))
    /\ request' = RequestAfterPop(request, filters')
    /\ pc' = "basic"
    /\ UNCHANGED <<sort_specs, queryset_count, paginator, page, response>>
    /\ UNCHANGED <<view, filter_kwargs, exclude_kwargs, outcome>>

GroupedStage == GroupedReturns(GroupedCalls(view.filter_groups, filters))

\* line 187: the n-th queryset.filter(q) of apply_grouped_filters raises e
GroupedRaises(gc) ==
    /\ pc = "grouped"
    /\ \E n \in 1..Len(gc), e \in ExcKinds :
          /\ calls' = calls \o SubSeq(gc, 1, n)
          /\ filters' = PopCalls(filters, gc, n - 1)
          /\ outcome' = HandleFilterException(e)
    /\ request' = RequestAfterPop(request, filters')
    /\ pc' = "raised"
    /\ UNCHANGED <<sort_specs, queryset_count, paginator, page, response>>
    /\ UNCHANGED <<view, filter_kwargs, exclude_kwargs>>

GroupedRaise == GroupedRaises(GroupedCalls(view.filter_groups, filters))

\* lines 190-195: get_basic_filter_kwargs, queryset.filter, queryset.exclude
BasicReturns(kw) ==
    /\ pc = "basic"
    /\ filter_kwargs' = kw.filter_kwargs
    /\ exclude_kwargs' = kw.exclude_kwargs
    /\ calls' = calls \o BasicCalls(kw)
    /\ pc' = "search"
    /\ UNCHANGED <<sort_specs, queryset_count, paginator, page, response>>
    /\ UNCHANGED <<request, view, filters, outcome>>

BasicStage == BasicReturns(get_basic_filter_kwargs(filters))

\* lines 190-195: the n-th of the basic stage's calls raises e
BasicRaises(kw, bc) ==
    /\ pc = "basic"
    /\ filter_kwargs' = kw.filter_kwargs
    /\ exclude_kwargs' = kw.exclude_kwargs
    /\ \E n \in 1..Len(bc), e \in ExcKinds :
          /\ calls' = calls \o SubSeq(bc, 1, n)
          /\ outcome' = HandleFilterException(e)
    /\ pc' = "raised"
    /\ UNCHANGED <<sort_specs, queryset_count, paginator, page, response>>
    /\ UNCHANGED <<request, view, filters>>

BasicRaise ==
    BasicRaises(get_basic_filter_kwargs(filters),
                BasicCalls(get_basic_filter_kwargs(filters)))

\* lines 198-202: the search predicate
SearchReturns(sc) ==
    /\ pc = "search"
    /\ calls' = calls \o sc
    /\ pc' = "distinct"
    /\ UNCHANGED <<sort_specs, queryset_count, paginator, page, response>>
    /\ UNCHANGED <<request, view, filters, filter_kwargs, exclude_kwargs, outcome>>

SearchStage == SearchReturns(SearchCalls(filters, view.search_fields))

\* line 202: queryset.filter(q) of apply_search raises e
SearchRaises(sc) ==
    /\ pc = "search"
    /\ sc # <<>>
    /\ \E e \in ExcKinds :
          /\ calls' = calls \o sc
          /\ outcome' = HandleFilterException(e)
    /\ pc' = "raised"
    /\ UNCHANGED <<sort_specs, queryset_count, paginator, page, response>>
    /\ UNCHANGED <<request, view, filters, filter_kwargs, exclude_kwargs>>

SearchRaise == SearchRaises(SearchCalls(filters, view.search_fields))

\* line 204: return queryset.distinct()
DistinctReturn ==
    /\ pc = "distinct"
    /\ calls' = Append(calls, Call("distinct", "distinct", <<>>, EmptyDict, {}))
    /\ outcome' = Returned
    /\ pc' = "returned"
    /\ UNCHANGED <<sort_specs, queryset_count, paginator, page, response>>
    /\ UNCHANGED <<request, view, filters, filter_kwargs, exclude_kwargs>>

\* line 204: queryset.distinct() raises e
DistinctRaise ==
    /\ pc = "distinct"
    /\ \E e \in ExcKinds :
          /\ calls' = Append(calls, Call("distinct", "distinct", <<>>, EmptyDict, {}))
          /\ outcome' = HandleFilterException(e)
    /\ pc' = "raised"
    /\ UNCHANGED <<sort_specs, queryset_count, paginator, page, response>>
    /\ UNCHANGED <<request, view, filters, filter_kwargs, exclude_kwargs>>

NextFilter ==
    \/ CopyFilters
    \/ GroupedStage
    \/ GroupedRaise
    \/ BasicStage
    \/ BasicRaise
    \/ SearchStage
    \/ SearchRaise
    \/ DistinctReturn
    \/ DistinctRaise

Spec == InitFilter /\ [][NextFilter]_vars

(***************************************************************************)
(* Properties of DynamicFilterBackend, checked under Spec.                 *)
(***************************************************************************)
\* the basic stage has run on the working map `filters`
BasicDone == pc \in {"search", "distinct", "returned"}

\* the entries of the working map whose clause get_basic_filter_kwargs emits
EmittedEntries == {i \in 1..Len(filters) : BasicClause(filters[i].key, filters[i].value).emit}

\* C1: clauses accumulate without overwrite: once the basic stage has run, the
\* number of clauses in filter_kwargs and exclude_kwargs together equals the
\* number of non-reserved keys of the working map whose clause passed coercion,
\* also when two keys resolve to the same field and lookup.
C1_ClausesAccumulate ==
    BasicDone =>
        Cardinality(DOMAIN filter_kwargs) + Cardinality(DOMAIN exclude_kwargs)
            = Cardinality(EmittedEntries)

\* C2: no predicate applied to the data store by the grouped stage or the
\* basic stage is built from a parameter whose key is page, page_size, search
\* or sort.
C2_ReservedNeverFiltered ==
    \A i \in 1..Len(calls) :
        calls[i].stage \in {"grouped", "basic"} => calls[i].src \cap RESERVED_KEYS = {}

\* a key of the request that starts with a declared group key
IsGroupedKey(k) ==
    \E g \in 1..Len(view.filter_groups) : StartsWith(k, view.filter_groups[g].group_key)

\* C3: every key the grouped stage consumes (a key that starts with a declared
\* group key) is gone from the working map when the basic stage runs, and no
\* key is the source of both a grouped predicate and a basic clause.
C3_ConsumedKeysRemoved ==
    /\ pc \in {"basic", "search", "distinct", "returned"} =>
          \A k \in KeysOf(request.filters) :
              IsGroupedKey(k) =>
                  /\ k \notin KeysOf(filters)
                  /\ \E i \in 1..Len(calls) :
                        calls[i].stage = "grouped" /\ calls[i].src = {k}
    /\ \A i, j \in 1..Len(calls) :
          calls[i].stage = "grouped" /\ calls[j].stage = "basic"
              => calls[i].src \cap calls[j].src = {}

\* a grouped key was consumed and the basic stage then emitted a clause
C3_Witness ==
    /\ pc = "search"
    /\ \E i \in 1..Len(calls) : calls[i].stage = "grouped"
    /\ \E j \in 1..Len(calls) : calls[j].stage = "basic"

\* the place of a data store call in the fixed order of filter_queryset
StageRank(c) ==
    IF c.stage = "grouped" THEN 1
    ELSE IF c.stage = "basic" /\ c.op = "filter" THEN 2
    ELSE IF c.stage = "basic" /\ c.op = "exclude" THEN 3
    ELSE IF c.stage = "search" THEN 4
    ELSE 5

\* the declaration index of the group a grouped call belongs to: the first
\* declared group whose key is a prefix of the consumed parameter key
GroupIndex(c) ==
    SetMin({g \in 1..Len(view.filter_groups) :
               \A k \in c.src : StartsWith(k, view.filter_groups[g].group_key)})

\* C4: the data store calls of filter_queryset come in one fixed order:
\* grouped predicates (groups in declaration order), then the include filter,
\* then the exclude filter, then the search predicate, then distinct; every
\* later stage is called at most once, and a successful run ends with distinct.
C4_FixedStageOrder ==
    /\ \A i, j \in 1..Len(calls) :
          i < j =>
              /\ StageRank(calls[i]) <= StageRank(calls[j])
              /\ StageRank(calls[i]) = StageRank(calls[j]) =>
                    /\ calls[i].stage = "grouped"
                    /\ GroupIndex(calls[i]) <= GroupIndex(calls[j])
    /\ pc = "returned" =>
          /\ Len(calls) > 0
          /\ calls[Len(calls)].op = "distinct"
          /\ filter_kwargs # EmptyDict =>
                \E i \in 1..Len(calls) : StageRank(calls[i]) = 2
          /\ exclude_kwargs # EmptyDict =>
                \E i \in 1..Len(calls) : StageRank(calls[i]) = 3

\* a successful run that made a call of each of the five stages
C4_Witness ==
    /\ pc = "returned"
    /\ \A r \in 1..5 : \E i \in 1..Len(calls) : StageRank(calls[i]) = r

\* C5: an exception raised inside filter_queryset that is a ValueError or a
\* ValidationError reaches the caller as one ValidationError with the message
\* "Invalid filter parameters" and no queryset; any other exception reaches
\* the caller unchanged.
C5_ExceptionTranslation ==
    /\ pc = "raised" =>
          /\ outcome.cause \in ExcKinds
          /\ outcome.kind # "queryset"
          /\ outcome.cause \in {"ValueError", "ValidationError"} =>
                /\ outcome.kind = "ValidationError"
                /\ outcome.message = "Invalid filter parameters"
          /\ outcome.cause \notin {"ValueError", "ValidationError"} =>
                /\ outcome.kind = outcome.cause
                /\ outcome.message = ""
    /\ outcome.kind = "queryset" <=> pc = "returned"

\* a data store call raised an exception that is neither a ValueError nor a
\* ValidationError
C5_Witness ==
    /\ pc = "raised"
    /\ outcome.cause = "FieldError"
    /\ Len(calls) > 0

\* the entry p fails coercion: a range value that does not split into two
\* elements, or a gt/gte/lt/lte value that is no number
FailsCoercion(p) ==
    /\ p.key \notin RESERVED_KEYS
    /\ \/ /\ ResolveLookup(StripExclude(p.key)).lookup = T_range
          /\ Len(Split(p.value, <<",">>)) # 2
       \/ /\ ResolveLookup(StripExclude(p.key)).lookup \in {T_gt, T_gte, T_lt, T_lte}
          /\ ~ParseFloat(p.value).ok

\* the map m without its i-th entry
WithoutEntry(m, i) == SubSeq(m, 1, i - 1) \o SubSeq(m, i + 1, Len(m))

\* C6: a clause that fails coercion is dropped without raising: the basic
\* stage returns, its include/exclude result is the result for the map without
\* that key, and the clause of every other emitted key is in the result.
C6_CoercionFailureDropped ==
    BasicDone =>
        \A i \in 1..Len(filters) :
            FailsCoercion(filters[i]) =>
                /\ filter_kwargs = get_basic_filter_kwargs(WithoutEntry(filters, i)).filter_kwargs
                /\ exclude_kwargs = get_basic_filter_kwargs(WithoutEntry(filters, i)).exclude_kwargs
                /\ i \notin EmittedEntries

\* the basic stage ran on a map with a clause that fails coercion and another
\* clause that is emitted
C6_Witness ==
    /\ BasicDone
    /\ \E i \in 1..Len(filters) : FailsCoercion(filters[i])
    /\ EmittedEntries # {}
    /\ DOMAIN filter_kwargs # {}

\* the positions of the "__" separators of a key
SeparatorsAt(key) == {i \in 1..(Len(key) - 1) : SubSeq(key, i, i + 1) = SEP}

\* lookup resolution as the specification words it: the segment after the
\* last "__" is the lookup if it is a recognized token, and the text before
\* that separator is the field; otherwise exact on the whole key
SpecResolve(key) ==
    IF /\ SeparatorsAt(key) # {}
       /\ SubSeq(key, (CHOOSE i \in SeparatorsAt(key) : \A j \in SeparatorsAt(key) : j <= i) + 2,
                 Len(key)) \in DOMAIN LOOKUP_EXPRESSIONS
    THEN [field  |-> SubSeq(key, 1, (CHOOSE i \in SeparatorsAt(key) :
                                        \A j \in SeparatorsAt(key) : j <= i) - 1),
          lookup |-> SubSeq(key, (CHOOSE i \in SeparatorsAt(key) :
                                     \A j \in SeparatorsAt(key) : j <= i) + 2, Len(key))]
    ELSE [field |-> key, lookup |-> T_exact]

\* C7: for every non-reserved key the basic stage processed, the field and
\* lookup the code resolves are those of the specification: the trailing
\* segment after the last "__" if it is a recognized token, with the rest as
\* the field, and otherwise exact on the whole key.
C7_LookupResolution ==
    BasicDone =>
        \A i \in 1..Len(filters) :
            filters[i].key \notin RESERVED_KEYS =>
                ResolveLookup(StripExclude(filters[i].key))
                    = SpecResolve(StripExclude(filters[i].key))

\* C12: filter_queryset never writes the caller's parameter map: no step of
\* it, returning or raising, changes request.filters (the grouped stage
\* removes keys from the working copy only), so the request holds the same
\* keys and values after the call, sort, page and page_size included.
C12_RequestFiltersUnchanged == [][request' = request]_vars

\* filter_queryset returned after the grouped stage removed a key from the
\* working map, and the request still holds that key and the page number
C12_Witness ==
    /\ pc = "returned"
    /\ \E k \in KeysOf(request.filters) : k \notin KeysOf(filters)
    /\ HasKey(request.filters, K_page)

\* the parameter keys behind the basic stage's call op ("filter" or "exclude")
BasicSrc(op) ==
    UNION {calls[i].src : i \in {j \in 1..Len(calls) :
                                    calls[j].stage = "basic" /\ calls[j].op = op}}

\* the clause name of a key that carries no negation mark: field and lookup
\* from its "__" parts, joined with the lookup's suffix
PlainFilterKey(k) ==
    FieldAndLookup(k, Split(k, SEP)).field
        \o LookupExpr(FieldAndLookup(k, Split(k, SEP)).lookup)

\* C13: negation routing: once the basic stage has run, the clause of every
\* key that yields one sits in exclude_kwargs (and is passed to exclude only)
\* iff the key starts with "!", and in filter_kwargs (passed to filter only)
\* otherwise; a negated key's clause is named by the field and lookup of the
\* key without its one leading "!", so that where "!k" and "k" both yield a
\* clause the two are stored under the same name.
C13_NegationRouting ==
    BasicDone =>
        \A i \in EmittedEntries :
            IF IsExcludeKey(filters[i].key)
            THEN /\ filters[i].key \in BasicSrc("exclude")
                 /\ filters[i].key \notin BasicSrc("filter")
                 /\ PlainFilterKey(Tail(filters[i].key)) \in DOMAIN exclude_kwargs
                 /\ \A j \in EmittedEntries :
                        filters[j].key = Tail(filters[i].key) =>
                            PlainFilterKey(Tail(filters[i].key)) \in DOMAIN filter_kwargs
            ELSE /\ filters[i].key \in BasicSrc("filter")
                 /\ filters[i].key \notin BasicSrc("exclude")
                 /\ PlainFilterKey(filters[i].key) \in DOMAIN filter_kwargs

\* the basic stage ran on a map that holds a key and its negation, and both
\* yielded a clause
C13_Witness ==
    /\ BasicDone
    /\ \E i, j \in EmittedEntries :
          /\ ~IsExcludeKey(filters[i].key)
          /\ filters[j].key = <<"!">> \o filters[i].key
    /\ DOMAIN filter_kwargs # {}
    /\ DOMAIN exclude_kwargs # {}

(***************************************************************************)
(* sorts.py: DynamicSort                                                   *)
(***************************************************************************)
\* getattr(view, "sort_fields", [])
SortFieldsAttr_Unrestricted(v) ==
    IF v.sort_fields.kind = "absent" THEN [kind |-> "other", items |-> <<>>]
    ELSE v.sort_fields

SortFieldsAttr(v) ==
    IF v.sort_fields.kind = "absent" THEN [kind |-> "list", items |-> <<>>]
    ELSE v.sort_fields

\* base_field in sort_fields
InList(x, items) == \E i \in 1..Len(items) : items[i] = x

\* _is_valid_field(field, view)
IsValidIn_WholeField(field, sort_fields) ==
    IF sort_fields.kind # "list" THEN TRUE
    ELSE InList(field, sort_fields.items)

IsValidIn(field, sort_fields) ==
    IF sort_fields.kind # "list" THEN TRUE
    ELSE InList(Split(field, SEP)[1], sort_fields.items)

is_valid_field(field, v) == IsValidIn(field, SortFieldsAttr(v))

\* lines 44-46: is_descending = field.startswith("-"); field = field[1:]
SortEntry(entry) ==
    [field      |-> IF StartsWith(entry, <<"-">>) THEN Tail(entry) ELSE entry,
     descending |-> StartsWith(entry, <<"-">>)]

\* lines 48-52: the entry is appended unless its field is not valid
KeepValid(e, v) == IF is_valid_field(e.field, v) THEN <<e>> ELSE <<>>

\* lines 42-52: the loop over sort_param.split(",")
RECURSIVE SortLoop(_, _)
SortLoop(entries, v) ==
    IF Len(entries) = 0 THEN <<>>
    ELSE KeepValid(SortEntry(entries[1]), v) \o SortLoop(Tail(entries), v)

\* request.filters.get("sort", "")
SortParam(req) ==
    IF HasKey(req.filters, K_sort) THEN GetValue(req.filters, K_sort) ELSE <<>>

\* lines 36-38 and 41-54: an empty sort parameter gives []
SortFieldsOf(sort_param, v) ==
    IF Len(sort_param) = 0 THEN <<>>
    ELSE SortLoop(Split(sort_param, <<",">>), v)

\* get_sort_fields(request, view)
get_sort_fields(req, v) ==
    IF ~req.has_filters THEN <<>>
    ELSE SortFieldsOf(SortParam(req), v)

\* lines 78-80: f"{'-' if field['descending'] else ''}{field['field']}"
OrderByArgs(specs) ==
    [i \in 1..Len(specs) |->
        (IF specs[i].descending THEN <<"-">> ELSE <<>>) \o specs[i].field]

OrderByCall(specs) ==
    [op |-> "order_by", stage |-> "sort", q |-> <<>>, kwargs |-> EmptyDict,
     src |-> {K_sort}, args |-> OrderByArgs(specs)]

\* except Exception as e: raise ValidationError(...)
HandleSortException(e) ==
    [kind |-> "ValidationError", message |-> "Invalid sort parameters", cause |-> e]

\* the entries a sort token is made of
SortEntryPool ==
    { <<"n","a","m","e">>,
      <<"-","n","a","m","e">>,
      <<"s","e","c","r","e","t">>,
      <<"-","o","w","n","e","r","_","_","n","a","m","e">>,
      <<"s","e","c","r","e","t","_","_","n","a","m","e">>,
      <<>>,
      <<"-","-","n","a","m","e">> }

RECURSIVE EntrySeqs(_)
EntrySeqs(n) ==
    IF n = 0 THEN {<<>>}
    ELSE {Append(t, e) : t \in EntrySeqs(n - 1), e \in SortEntryPool}

\* the sort tokens: up to MaxSortEntries entries joined by ","
SortTokens == {Join(t, <<",">>) : t \in UNION {EntrySeqs(n) : n \in 0..MaxSortEntries}}

SortRequests ==
    {[has_filters |-> TRUE, filters |-> <<Param(K_sort, t)>>] : t \in SortTokens}
    \cup {[has_filters |-> TRUE, filters |-> <<>>],
          [has_filters |-> FALSE, filters |-> <<>>]}

\* view.sort_fields: not declared, [], a list, or a value that is neither a
\* list nor a tuple
SortFieldChoices ==
    { NoSortFields,
      [kind |-> "list", items |-> <<>>],
      [kind |-> "list", items |-> <<<<"n","a","m","e">>, <<"o","w","n","e","r">>>>],
      [kind |-> "other", items |-> <<>>] }

(***************************************************************************)
(* DynamicSort.filter_queryset: the whole method is one step; it returns   *)
(* the queryset as it is, returns queryset.order_by(...), or raises.       *)
(***************************************************************************)
InitSort ==
    /\ request \in SortRequests
    /\ view \in {[filter_groups |-> <<>>, search_fields |-> <<>>, sort_fields |-> sf] :
                    sf \in SortFieldChoices}
    /\ pc = "start"
    /\ filters = <<>>
    /\ calls = <<>>
    /\ filter_kwargs = EmptyDict
    /\ exclude_kwargs = EmptyDict
    /\ outcome = NoOutcome
    /\ sort_specs = <<>>
    /\ queryset_count = 0
    /\ paginator = NoPaginator
    /\ page = NoPage
    /\ response = NoResponse

\* lines 73-75: if not sort_fields: return queryset
SortNothing(specs) ==
    /\ pc = "start"
    /\ specs = <<>>
    /\ sort_specs' = specs
    /\ outcome' = Returned
    /\ pc' = "returned"
    /\ UNCHANGED <<request, view, filters, calls, filter_kwargs, exclude_kwargs,
                   queryset_count, paginator, page, response>>

SortReturnUnchanged == SortNothing(get_sort_fields(request, view))

\* lines 77-82: return queryset.order_by(*order_by)
SortOrders(specs) ==
    /\ pc = "start"
    /\ specs # <<>>
    /\ sort_specs' = specs
    /\ calls' = Append(calls, OrderByCall(specs))
    /\ outcome' = Returned
    /\ pc' = "returned"
    /\ UNCHANGED <<request, view, filters, filter_kwargs, exclude_kwargs,
                   queryset_count, paginator, page, response>>

SortOrderBy == SortOrders(get_sort_fields(request, view))

\* lines 84-87: queryset.order_by raises e
SortRaises(specs) ==
    /\ pc = "start"
    /\ specs # <<>>
    /\ sort_specs' = specs
    /\ calls' = Append(calls, OrderByCall(specs))
    /\ \E e \in ExcKinds : outcome' = HandleSortException(e)
    /\ pc' = "raised"
    /\ UNCHANGED <<request, view, filters, filter_kwargs, exclude_kwargs,
                   queryset_count, paginator, page, response>>

SortOrderByRaise == SortRaises(get_sort_fields(request, view))

NextSort ==
    \/ SortReturnUnchanged
    \/ SortOrderBy
    \/ SortOrderByRaise

SpecSort == InitSort /\ [][NextSort]_vars

(***************************************************************************)
(* Properties of DynamicSort, checked under SpecSort.                      *)
(***************************************************************************)
\* the entries of the comma-split sort token of the request
TokenEntries == Split(SortParam(request), <<",">>)

\* the field of an entry: the entry without one leading "-"
EntryField(e) == IF Len(e) > 0 /\ e[1] = "-" THEN SubSeq(e, 2, Len(e)) ELSE e

\* the text of a field before its first "__"
RootSegment(f) ==
    IF SeparatorsAt(f) = {} THEN f ELSE SubSeq(f, 1, SetMin(SeparatorsAt(f)) - 1)

\* validity as the specification words it, against the allow-list of the view
\* (an undeclared sort_fields is the empty list)
SpecValid(f) ==
    \/ view.sort_fields.kind = "other"
    \/ \E i \in 1..Len(view.sort_fields.items) : view.sort_fields.items[i] = RootSegment(f)

\* the positions of the valid entries of the token
ValidAt == {i \in 1..Len(TokenEntries) : SpecValid(EntryField(TokenEntries[i]))}

\* the position in the token of the j-th valid entry
NthValid(j) == CHOOSE i \in ValidAt : Cardinality({k \in ValidAt : k < i}) = j - 1

\* C8: get_sort_fields returns exactly the valid entries of the comma-split
\* sort token, in input order, each with its field (one leading "-" stripped)
\* and with descending set iff the entry had the leading "-"; invalid entries
\* are omitted without an error.  A request without a sort token (no filters,
\* no sort key, or an empty string) has no entries.
C8_SortFieldsAreValidEntries ==
    pc # "start" =>
        /\ Len(SortParam(request)) = 0 => sort_specs = <<>>
        /\ Len(SortParam(request)) > 0 =>
              /\ Len(sort_specs) = Cardinality(ValidAt)
              /\ \A j \in 1..Len(sort_specs) :
                    /\ sort_specs[j].field = EntryField(TokenEntries[NthValid(j)])
                    /\ sort_specs[j].descending
                          = (Len(TokenEntries[NthValid(j)]) > 0
                             /\ TokenEntries[NthValid(j)][1] = "-")
        /\ sort_specs = <<>> => pc = "returned" /\ calls = <<>>

\* a token with an invalid entry between or beside valid ones was compiled
\* against an allow-list: one entry dropped, one kept and descending
C8_Witness ==
    /\ pc = "returned"
    /\ view.sort_fields.kind = "list"
    /\ Len(SortParam(request)) > 0
    /\ Len(sort_specs) = 1
    /\ Len(TokenEntries) = 2
    /\ sort_specs[1].descending
    /\ Len(Split(sort_specs[1].field, SEP)) = 2

\* the view declares no sort_fields, or declares an empty list or tuple
NoSortFieldsDeclared ==
    \/ view.sort_fields.kind = "absent"
    \/ view.sort_fields.kind = "list" /\ view.sort_fields.items = <<>>

\* C14: a view that declares no sort_fields, or an empty list, allows no sort
\* field: whatever the sort token, get_sort_fields gives the empty sequence
\* and filter_queryset returns without calling order_by.  An entry whose
\* root segment is not in a declared list is kept only when sort_fields is
\* neither a list nor a tuple, and then every entry of the token is kept.
C14_UndeclaredSortFieldsAllowNothing ==
    pc # "start" =>
        /\ NoSortFieldsDeclared =>
              /\ sort_specs = <<>>
              /\ calls = <<>>
              /\ pc = "returned"
              /\ outcome = Returned
        /\ (\E j \in 1..Len(sort_specs) :
               ~InList(RootSegment(sort_specs[j].field), view.sort_fields.items))
              => view.sort_fields.kind = "other"
        /\ view.sort_fields.kind = "other" /\ Len(SortParam(request)) > 0
              => Len(sort_specs) = Len(TokenEntries)

\* a request with a sort token naming fields was sorted for a view that
\* declares no sort_fields, and nothing was ordered
C14_Witness ==
    /\ pc = "returned"
    /\ view.sort_fields.kind = "absent"
    /\ \E i \in 1..Len(TokenEntries) : Len(EntryField(TokenEntries[i])) > 0
    /\ sort_specs = <<>>
    /\ calls = <<>>

(***************************************************************************)
(* paginations.py: PageNumberPagination                                    *)
(***************************************************************************)
\* the class attributes page_size and max_page_size
page_size == 10
max_page_size == 1000

\* getattr(request, "filters", {}).get(name): has = FALSE is None
GetParam(req, name) ==
    IF req.has_filters /\ HasKey(req.filters, name)
    THEN [has |-> TRUE, value |-> GetValue(req.filters, name)]
    ELSE [has |-> FALSE, value |-> <<>>]

PyMin(a, b) == IF a <= b THEN a ELSE b
PyMax(a, b) == IF a >= b THEN a ELSE b

\* lines 82-89 of get_page_size, given the parameter and int(page_size);
\* self.page_size is the class attribute, which is not None
PageSizeFrom_NoCap(param, n) ==
    IF param.has /\ n.ok /\ n.val > 0 THEN n.val ELSE page_size

PageSizeFrom(param, n) ==
    IF param.has /\ n.ok /\ n.val > 0 THEN PyMin(n.val, max_page_size)
    ELSE page_size

PageSizeOf(param) == PageSizeFrom(param, ParseInt(param.value))

\* get_page_size(request)
get_page_size(req) == PageSizeOf(GetParam(req, K_page_size))

\* lines 93-98 of get_page_number, given the parameter and int(page)
PageNumberFrom_Clamped(param, n) ==
    IF param.has /\ n.ok THEN PyMax(n.val, 1) ELSE 1

PageNumberFrom(param, n) ==
    IF param.has /\ n.ok THEN n.val ELSE 1

PageNumberOf(param) == PageNumberFrom(param, ParseInt(param.value))

\* get_page_number(request)
get_page_number(req) == PageNumberOf(GetParam(req, K_page))

\* django.core.paginator.Paginator(queryset, page_size), as get_paginator
\* builds it (orphans = 0, allow_empty_first_page = True): num_pages is 1 for
\* an empty queryset and ceil(count / per_page) otherwise
NumPages(count, per_page) ==
    IF count = 0 THEN 1 ELSE (count + per_page - 1) \div per_page

\* Paginator.validate_number for an int: EmptyPage below 1 and above num_pages
ValidPage(number, count, per_page) ==
    number >= 1 /\ number <= NumPages(count, per_page)

\* Paginator.page(number): object_list[bottom:top] of the records 1..count
PageItems(number, count, per_page) ==
    [i \in 1..(PyMin(number * per_page, count) - (number - 1) * per_page) |->
        (number - 1) * per_page + i]

PaginatorOf(count, per_page) ==
    [per_page |-> per_page, count |-> count, num_pages |-> NumPages(count, per_page)]

PageOf(number, count, per_page) ==
    [number |-> number, items |-> PageItems(number, count, per_page)]

\* except (PageNotAnInteger, EmptyPage) as e: raise ValidationError(...)
HandlePageException(e) ==
    [kind |-> "ValidationError", message |-> "Invalid page number", cause |-> e]

ReturnedList == [kind |-> "list", message |-> "", cause |-> "none"]

\* get_paginated_response(data)
PaginatedResponse_NextAlways(data, pg, pr) ==
    [data |-> data,
     page |-> IntStr(pg.number),
     next_page |-> IntStr(pg.number + 1),
     previous_page |-> IF pg.number > 1 THEN IntStr(pg.number - 1) ELSE <<>>,
     total_data_count |-> IntStr(pr.count),
     total_page_count |-> IntStr(pr.num_pages)]

PaginatedResponse(data, pg, pr) ==
    [data |-> data,
     page |-> IntStr(pg.number),
     next_page |-> IF pg.number < pr.num_pages THEN IntStr(pg.number + 1) ELSE <<>>,
     previous_page |-> IF pg.number > 1 THEN IntStr(pg.number - 1) ELSE <<>>,
     total_data_count |-> IntStr(pr.count),
     total_page_count |-> IntStr(pr.num_pages)]

\* the values of the page and page_size parameters of a request
PageValues ==
    { <<"0">>, <<"1">>, <<"2">>, <<"3">>, <<"4">>, <<"-","1">>, <<"a","b","c">>, <<"1",".","5">> }
PageSizeValues ==
    { <<"2">>, <<"3">>, <<"0">>, <<"-","3">>, <<"a","b","c">>, <<"1","0","0","0","0","0","0">> }

PageRequests ==
    {[has_filters |-> TRUE, filters |-> <<Param(K_page, p), Param(K_page_size, s)>>] :
        p \in PageValues, s \in PageSizeValues}
    \cup {[has_filters |-> TRUE, filters |-> <<Param(K_page, p)>>] : p \in PageValues}
    \cup {[has_filters |-> TRUE, filters |-> <<Param(K_page_size, s)>>] : s \in PageSizeValues}
    \cup {[has_filters |-> TRUE, filters |-> <<>>],
          [has_filters |-> FALSE, filters |-> <<>>]}

(***************************************************************************)
(* PageNumberPagination: paginate_queryset is one step, which returns the  *)
(* list of the page or raises; get_paginated_response follows a return.    *)
(***************************************************************************)
InitPage ==
    /\ request \in PageRequests
    /\ queryset_count \in 0..MaxCount
    /\ view = [filter_groups |-> <<>>, search_fields |-> <<>>, sort_fields |-> NoSortFields]
    /\ pc = "start"
    /\ filters = <<>>
    /\ calls = <<>>
    /\ filter_kwargs = EmptyDict
    /\ exclude_kwargs = EmptyDict
    /\ outcome = NoOutcome
    /\ sort_specs = <<>>
    /\ paginator = NoPaginator
    /\ page = NoPage
    /\ response = NoResponse

\* lines 45-60: self.page = paginator.page(page_number); return list(self.page)
PaginateWith(per_page, number) ==
    /\ pc = "start"
    /\ ValidPage(number, queryset_count, per_page)
    /\ paginator' = PaginatorOf(queryset_count, per_page)
    /\ page' = PageOf(number, queryset_count, per_page)
    /\ outcome' = ReturnedList
    /\ pc' = "paginated"
    /\ UNCHANGED <<request, view, filters, calls, filter_kwargs, exclude_kwargs,
                   sort_specs, queryset_count, response>>

PaginateReturn == PaginateWith(get_page_size(request), get_page_number(request))

\* lines 50-55: paginator.page raises EmptyPage; self.page is not assigned
PaginateFailsWith(per_page, number) ==
    /\ pc = "start"
    /\ ~ValidPage(number, queryset_count, per_page)
    /\ paginator' = PaginatorOf(queryset_count, per_page)
    /\ outcome' = HandlePageException("EmptyPage")
    /\ pc' = "raised"
    /\ UNCHANGED <<request, view, filters, calls, filter_kwargs, exclude_kwargs,
                   sort_specs, queryset_count, page, response>>

PaginateRaise == PaginateFailsWith(get_page_size(request), get_page_number(request))

\* lines 62-78: get_paginated_response(data) with the data of the page
GetPaginatedResponse ==
    /\ pc = "paginated"
    /\ response' = PaginatedResponse(page.items, page, paginator)
    /\ pc' = "responded"
    /\ UNCHANGED <<request, view, filters, calls, filter_kwargs, exclude_kwargs,
                   sort_specs, queryset_count, paginator, page, outcome>>

NextPage ==
    \/ PaginateReturn
    \/ PaginateRaise
    \/ GetPaginatedResponse

SpecPage == InitPage /\ [][NextPage]_vars

(***************************************************************************)
(* Properties of PageNumberPagination, checked under SpecPage.             *)
(***************************************************************************)
\* paginate_queryset has run
Paginated == pc \in {"paginated", "raised", "responded"}

\* the page_size parameter is present and parses to an integer above 0
PositivePageSizeGiven ==
    /\ GetParam(request, K_page_size).has
    /\ ParseInt(GetParam(request, K_page_size).value).ok
    /\ ParseInt(GetParam(request, K_page_size).value).val > 0

\* C9: the effective page size is min(value, max_page_size) if the page_size
\* parameter is present and parses to an integer above 0, and the configured
\* page size in every other case; a page size the request supplies never
\* exceeds max_page_size.
C9_PageSizeResolution ==
    Paginated =>
        /\ PositivePageSizeGiven =>
              /\ paginator.per_page <= max_page_size
              /\ paginator.per_page <= ParseInt(GetParam(request, K_page_size).value).val
              /\ \/ paginator.per_page = max_page_size
                 \/ paginator.per_page = ParseInt(GetParam(request, K_page_size).value).val
        /\ ~PositivePageSizeGiven => paginator.per_page = page_size

\* a request asked for more than max_page_size records a page
C9_Witness ==
    /\ Paginated
    /\ PositivePageSizeGiven
    /\ ParseInt(GetParam(request, K_page_size).value).val > max_page_size
    /\ paginator.per_page = max_page_size

\* the page number the request asks for: the page parameter where it parses
\* to an integer, and 1 otherwise
RequestedPage ==
    IF GetParam(request, K_page).has /\ ParseInt(GetParam(request, K_page).value).ok
    THEN ParseInt(GetParam(request, K_page).value).val
    ELSE 1

\* total_page_count: 1 for an empty result set, and otherwise the least t
\* with t * per_page >= count
TotalPageCount ==
    IF queryset_count = 0 THEN 1
    ELSE SetMin({t \in 1..queryset_count : t * paginator.per_page >= queryset_count})

\* C10: paginate_queryset uses the parsed page parameter as it is (1 when it
\* is absent or no integer); it raises ValidationError "Invalid page number"
\* whenever that number is outside [1, total_page_count], 0 and negative
\* numbers included, never substituting a nearer page; inside the range it
\* returns the records of exactly that page, and page 1 of an empty result
\* set is an empty list.
C10_PageNumberNotClamped ==
    Paginated =>
        /\ paginator.num_pages = TotalPageCount
        /\ (RequestedPage < 1 \/ RequestedPage > TotalPageCount) =>
              /\ pc = "raised"
              /\ outcome.kind = "ValidationError"
              /\ outcome.message = "Invalid page number"
              /\ page = NoPage
        /\ (RequestedPage >= 1 /\ RequestedPage <= TotalPageCount) =>
              /\ pc # "raised"
              /\ outcome.kind = "list"
              /\ page.number = RequestedPage
              /\ \A i \in 1..Len(page.items) :
                    page.items[i] = (RequestedPage - 1) * paginator.per_page + i
              /\ Len(page.items) =
                    (IF RequestedPage * paginator.per_page <= queryset_count
                     THEN paginator.per_page
                     ELSE queryset_count - (RequestedPage - 1) * paginator.per_page)
        /\ (queryset_count = 0 /\ RequestedPage = 1) =>
              pc # "raised" /\ page.items = <<>>

\* page 0 of a non-empty result set was requested and refused
C10_Witness ==
    /\ pc = "raised"
    /\ queryset_count > 0
    /\ GetParam(request, K_page).has
    /\ RequestedPage = 0

\* the text s is the decimal numeral of the integer n, as str(n) writes it:
\* digits only after an optional "-", and no leading zero
IsNumeralOf(s, n) ==
    /\ ParseInt(s).ok
    /\ ParseInt(s).val = n
    /\ s[1] # "+"
    /\ (Len(s) > 1 => s[1] # "0")
    /\ (n >= 0 => IsDigit(s[1]))

\* C11: in the envelope of get_paginated_response, next_page is the numeral of
\* page + 1 iff page < total_page_count and the empty string otherwise, and
\* previous_page is the numeral of page - 1 iff page > 1 and the empty string
\* otherwise; a missing neighbour is never written as a number.
C11_NeighbourPages ==
    pc = "responded" =>
        /\ IsNumeralOf(response.page, RequestedPage)
        /\ IsNumeralOf(response.total_page_count, TotalPageCount)
        /\ RequestedPage < TotalPageCount =>
              IsNumeralOf(response.next_page, RequestedPage + 1)
        /\ RequestedPage >= TotalPageCount => response.next_page = <<>>
        /\ RequestedPage > 1 =>
              IsNumeralOf(response.previous_page, RequestedPage - 1)
        /\ RequestedPage <= 1 => response.previous_page = <<>>

\* the envelope of the last of several pages: a previous page and no next page
C11_Witness ==
    /\ pc = "responded"
    /\ TotalPageCount > 1
    /\ page.number = TotalPageCount
    /\ response.next_page = <<>>
    /\ response.previous_page # <<>>

=============================================================================
